---- MODULE Spec2Model ----
(***************************************************************************)
(* Model of macos-network-metrics (main.c): a loop that once per second    *)
(* fetches the NET_RT_IFLIST2 routing-socket dump, walks its variable-     *)
(* length records, sums the traffic counters of every RTM_IFINFO2 record   *)
(* (taken from the record itself or from a per-interface IFMIB_IFDATA      *)
(* query) and prints totals, deltas and overflow warnings.                 *)
(*                                                                         *)
(* Scaling.  uint64_t is modelled as an unsigned integer of WordBits bits  *)
(* (arithmetic modulo 2^WordBits).  Offsets and lengths in the buffer are  *)
(* counted in cells of sizeof(struct if_msghdr2) bytes, so a record header *)
(* and its ifm_data that start below `length` lie wholly below `length`.   *)
(***************************************************************************)
EXTENDS Integers, Sequences, FiniteSets

\* ------------------------------------------------------------------ bounds
\* Width of the modelled uint64_t, in bits.
WordBits == 4
\* Largest buffer the routing sysctl returns, in cells.
MaxLen == 2
\* Number of GetNetworkMetrics calls after which the loop is no longer followed.
MaxPasses == 3

Modulus == 2 ^ WordBits
Word == 0 .. (Modulus - 1)

\* --------------------------------------------------------- uint64_t arith
Add64(a, b) == (a + b) % Modulus
Sub64(a, b) == ((a - b) + Modulus) % Modulus

\* struct NetworkMetrics
NetworkMetricsFields ==
  {"totalInputBytes", "totalOutputBytes", "totalInputPackets", "totalOutputPackets"}

\* (struct NetworkMetrics){}
ZeroMetrics ==
  [totalInputBytes |-> 0, totalOutputBytes |-> 0,
   totalInputPackets |-> 0, totalOutputPackets |-> 0]

\* struct if_data64 as far as the program reads it
IfData(ip, op, ib, ob) ==
  [ifi_ipackets |-> ip, ifi_opackets |-> op, ifi_ibytes |-> ib, ifi_obytes |-> ob]

\* ------------------------------------------------------- the kernel (input)
\* The kernel's per-interface counters at the time of one pass: a small set
\* of tables, interface index -> full-width counters.
KernelTables ==
  << << IfData(10, 10, 10, 10),
        IfData(Modulus - 5, Modulus - 5, Modulus - 5, Modulus - 5) >>,
     << IfData(15, 15, 15, 15), IfData(3, 3, 3, 3) >>,
     << IfData(3, 3, 15, 15),   IfData(15, 15, 3, 15) >>,
     << IfData(15, 15, 15, 3),  IfData(0, 0, 0, 0) >> >>

Kernels == DOMAIN KernelTables
IfIndexes == DOMAIN KernelTables[1]

\* The ifm_data fields are cut to the lower half of the width by the kernel
\* (the 4GiB truncation the source documents, scaled like the word).
TruncModulus == 2 ^ (WordBits - 1)
Truncated(d) ==
  IfData(d.ifi_ipackets % TruncModulus, d.ifi_opackets % TruncModulus,
         d.ifi_ibytes % TruncModulus, d.ifi_obytes % TruncModulus)

\* What sysctl({CTL_NET, PF_LINK, NETLINK_GENERIC, IFMIB_IFDATA, index,
\* IFDATA_GENERAL}) stores in mibdata.ifmd_data when it succeeds.
IfmibData(k, index) == KernelTables[k][index]

\* Record headers of the dump: declared length, type tag, interface index.
MsgTypes == {"RTM_IFINFO2", "RTM_NEWADDR"}
\* The headers a cell may hold: an interface record of one or two cells for
\* each interface, and an address record of one or two cells or one that
\* declares no length at all.
Header(len, type, index) ==
  [ifm_msglen |-> len, ifm_type |-> type, ifm_index |-> index]
Headers ==
  { Header(len, "RTM_IFINFO2", i) : len \in 1 .. 2, i \in IfIndexes }
  \cup { Header(len, "RTM_NEWADDR", 1) : len \in 0 .. 2 }

\* Cells that no walk from offset 0 reads hold this header.
Filler == Header(1, "RTM_NEWADDR", 1)

\* Offsets a walk that trusts the declared lengths reads, starting at o.
RECURSIVE Chain(_, _)
Chain(hs, o) ==
  IF o >= Len(hs) THEN {}
  ELSE IF hs[o + 1].ifm_msglen = 0 THEN {o}
  ELSE {o} \cup Chain(hs, o + hs[o + 1].ifm_msglen)

\* The dumps followed: the kernel lists every interface at most once.
Layouts ==
  { hs \in UNION { [1 .. n -> Headers] : n \in 0 .. MaxLen } :
      /\ \A i \in 1 .. Len(hs) : (i - 1) \notin Chain(hs, 0) => hs[i] = Filler
      /\ \A i, j \in Chain(hs, 0) :
           (/\ hs[i + 1].ifm_type = "RTM_IFINFO2"
            /\ hs[j + 1].ifm_type = "RTM_IFINFO2"
            /\ hs[i + 1].ifm_index = hs[j + 1].ifm_index) => i = j }

\* The reply of sysctl(NET_RT_IFLIST2) for kernel table k and layout hs: every
\* cell read as a struct if_msghdr2 (header plus embedded ifm_data).
IfList2(k, hs) ==
  [i \in 1 .. Len(hs) |->
     [ifm_msglen |-> hs[i].ifm_msglen,
      ifm_type   |-> hs[i].ifm_type,
      ifm_index  |-> hs[i].ifm_index,
      ifm_data   |-> Truncated(KernelTables[k][hs[i].ifm_index])]]

\* The value of one sysctl call: 0, or -1 with errno set.
SysctlResults == {0, -1}

\* ------------------------------------------------------------------- state
VARIABLES
  pc,             \* position of the program
  running,        \* FALSE in the call of line 114, TRUE inside while (1)
  useIfmibData,   \* main's flag, GetNetworkMetrics' parameter
  kernel,         \* kernel table in force during the current pass
  length,         \* size_t length
  buffer,         \* the bytes sysctl stored, as cells
  next,           \* the cursor, as an offset from buffer
  metrics,        \* the accumulator of GetNetworkMetrics
  lastMetrics,    \* main's lastMetrics
  currentMetrics, \* main's currentMetrics
  printed,        \* what the current iteration has written to stdout
  exitStatus,     \* -1 while the process runs, else the exit status
  sysctlError,    \* history: which sysctl call has returned -1, if any
  trace,          \* history: records the loop of this pass has visited
  returned,       \* history: the snapshots returned, newest last
  passes,         \* history: number of calls of GetNetworkMetrics that returned
  reports,        \* history: number of reports printed
  waits,          \* history: number of sleep(1) calls made
  earlier,        \* history: the warnings the iteration before this one printed
  sources         \* history: per returned snapshot, the interfaces summed

vars ==
  << pc, running, useIfmibData, kernel, length, buffer, next, metrics,
     lastMetrics, currentMetrics, printed, exitStatus, sysctlError, trace,
     returned, passes, reports, waits, earlier, sources >>

\* Longest history of one pass that is kept (a well-formed pass visits at
\* most MaxLen records).
TraceCap == MaxLen + 1

\* --------------------------------------------------------- GetNetworkMetrics
\* The four += written as =.
AccumulateAssigns(m, d) ==
  [totalInputPackets  |-> d.ifi_ipackets,
   totalOutputPackets |-> d.ifi_opackets,
   totalInputBytes    |-> d.ifi_ibytes,
   totalOutputBytes   |-> d.ifi_obytes]

\* The byte counters written with = and the packet counters with +=.
AccumulateBytesAssigned(m, d) ==
  [totalInputPackets  |-> Add64(m.totalInputPackets, d.ifi_ipackets),
   totalOutputPackets |-> Add64(m.totalOutputPackets, d.ifi_opackets),
   totalInputBytes    |-> d.ifi_ibytes,
   totalOutputBytes   |-> d.ifi_obytes]

\* Lines 93-96 and 99-102: the four += of one record.
Accumulate(m, d) ==
  [totalInputPackets  |-> Add64(m.totalInputPackets, d.ifi_ipackets),
   totalOutputPackets |-> Add64(m.totalOutputPackets, d.ifi_opackets),
   totalInputBytes    |-> Add64(m.totalInputBytes, d.ifi_ibytes),
   totalOutputBytes   |-> Add64(m.totalOutputBytes, d.ifi_obytes)]

\* Line 65.
IsIfInfo2(message) == message.ifm_type = "RTM_IFINFO2"

\* A query that always asks for interface 1.
QueryIndexFirst(message) == 1

\* Line 78: the interface the secondary query asks for.
QueryIndex(message) == message.ifm_index

\* A cursor that moves on by one cell whatever the record declares.
AdvanceOneCell(cursor, message) == cursor + 1

\* Line 106.
Advance(cursor, message) == cursor + message.ifm_msglen

\* Line 62: the loop condition.
More(cursor, end) == cursor < end

\* A test of the size query's result that no value meets.
SizeQueryFailedNever(rc) == rc < -1

\* A test of the secondary query's result that no value meets.
IfmibQueryFailedNever(rc) == rc < -1

\* The tests of lines 50, 56 and 84.
SizeQueryFailed(rc) == rc < 0
ContentQueryFailed(rc) == rc < 0
IfmibQueryFailed(rc) == rc < 0

\* Line 82: mibdata before the query fills it.
ZeroIfData == IfData(0, 0, 0, 0)

\* exit(1) of lines 52, 58 and 86.
Die ==
  /\ pc' = "exit"
  /\ exitStatus' = 1
  /\ UNCHANGED << running, useIfmibData, kernel, length, buffer, next, metrics,
                  lastMetrics, currentMetrics, printed, trace, returned,
                  passes, reports, waits,
                  earlier, sources >>

Noted(rc, call) == IF rc < 0 THEN call ELSE sysctlError

\* Lines 49-53: the size query.  A call that failed leaves length unset.
SizeQuery ==
  /\ pc = "size"
  /\ \E rc \in SysctlResults :
       /\ sysctlError' = Noted(rc, "size")
       /\ IF SizeQueryFailed(rc)
          THEN Die
          ELSE /\ \E n \in 0 .. MaxLen : length' = n
               /\ pc' = "fetch"
               /\ UNCHANGED << running, useIfmibData, kernel, buffer, next,
                               metrics, lastMetrics, currentMetrics, printed,
                               exitStatus, trace, returned, passes, reports, waits,
                  earlier, sources >>

\* Lines 55-61: the content query, then the accumulator and the cursor are
\* set.  A call that failed leaves the malloc'ed bytes as they were.
ContentQuery ==
  /\ pc = "fetch"
  /\ \E rc \in SysctlResults :
       /\ sysctlError' = Noted(rc, "content")
       /\ IF ContentQueryFailed(rc)
          THEN Die
          ELSE /\ \E hs \in Layouts :
                    /\ Len(hs) <= length
                    /\ buffer' = IfList2(kernel, hs)
                    /\ length' = Len(hs)
               /\ metrics' = ZeroMetrics
               /\ next' = 0
               /\ trace' = << >>
               /\ pc' = "loop"
               /\ UNCHANGED << running, useIfmibData, kernel, lastMetrics,
                               currentMetrics, printed, exitStatus, returned,
                               passes, reports, waits,
                  earlier, sources >>

\* The history entry of one visit: where the record starts, the record as
\* read, the branch of line 65 taken, the interface queried and the query's
\* result (each empty when no query was made).
Visit(offset, message, kind, queried, result) ==
  [offset |-> offset, message |-> message, kind |-> kind,
   queried |-> queried, result |-> result]

Record(t, v) == IF Len(t) < TraceCap THEN Append(t, v) ELSE t

\* Lines 62-107: one turn of the loop over the record at the cursor.
ParseRecord ==
  /\ pc = "loop"
  /\ More(next, length)
  /\ LET message == buffer[next + 1] IN
       IF IsIfInfo2(message)
       THEN IF useIfmibData
            THEN \E rc \in SysctlResults :
                   /\ sysctlError' = Noted(rc, "ifmib")
                   /\ IF IfmibQueryFailed(rc)
                      THEN Die
                      ELSE LET mibdata ==
                                 IF rc < 0 THEN ZeroIfData
                                 ELSE IfmibData(kernel, QueryIndex(message))
                           IN /\ metrics' = Accumulate(metrics, mibdata)
                              /\ trace' =
                                   Record(trace,
                                          Visit(next, message, "GenericInfo",
                                                << QueryIndex(message) >>,
                                                << mibdata >>))
                              /\ next' = Advance(next, message)
                              /\ UNCHANGED << pc, exitStatus >>
            ELSE /\ metrics' = Accumulate(metrics, message.ifm_data)
                 /\ trace' = Record(trace,
                               Visit(next, message, "GenericInfo", << >>, << >>))
                 /\ next' = Advance(next, message)
                 /\ UNCHANGED << pc, exitStatus, sysctlError >>
       ELSE /\ trace' = Record(trace, Visit(next, message, "Other", << >>, << >>))
            /\ next' = Advance(next, message)
            /\ UNCHANGED << pc, exitStatus, sysctlError, metrics >>
  /\ UNCHANGED << running, useIfmibData, kernel, length, buffer, lastMetrics,
                  currentMetrics, printed, returned, passes, reports, waits,
                  earlier, sources >>

\* History of returned snapshots: a new one is appended, and all but the
\* newest are forgotten when the next iteration starts.
Remember(h, m) == Append(h, m)
Newest(h) == IF h = << >> THEN << >> ELSE << h[Len(h)] >>

\* The interfaces a pass has summed, each with the byte counters the selected
\* source gave for it.
InterfacesOf(t) ==
  { [index  |-> t[i].message.ifm_index,
     ibytes |-> (IF t[i].result = << >> THEN t[i].message.ifm_data
                 ELSE t[i].result[1]).ifi_ibytes,
     obytes |-> (IF t[i].result = << >> THEN t[i].message.ifm_data
                 ELSE t[i].result[1]).ifi_obytes] :
    i \in { j \in DOMAIN t : t[j].kind = "GenericInfo" } }

\* A return that hands every snapshot, the first included, to the report.
ReturnAlwaysReports ==
  /\ pc = "loop"
  /\ ~More(next, length)
  /\ returned' = Remember(returned, metrics)
  /\ passes' = passes + 1
  /\ currentMetrics' = metrics
  /\ pc' = "report"
  /\ running' = TRUE
  /\ length' = 0
  /\ buffer' = << >>
  /\ next' = 0
  /\ metrics' = ZeroMetrics
  /\ trace' = << >>
  /\ sources' = Append(sources, InterfacesOf(trace))
  /\ UNCHANGED << useIfmibData, kernel, lastMetrics, printed, exitStatus,
                  sysctlError, reports, waits, earlier >>

\* Lines 62 and 109: the loop ends and the snapshot is returned, to line 114
\* (lastMetrics) or to line 118 (currentMetrics).
Return ==
  /\ pc = "loop"
  /\ ~More(next, length)
  /\ returned' = Remember(returned, metrics)
  /\ passes' = passes + 1
  /\ IF running
     THEN /\ currentMetrics' = metrics
          /\ pc' = "report"
          /\ UNCHANGED << running, lastMetrics >>
     ELSE /\ lastMetrics' = metrics
          /\ running' = TRUE
          /\ pc' = "sleep"
          /\ UNCHANGED currentMetrics
  \* the callee's locals end with the call
  /\ length' = 0
  /\ buffer' = << >>
  /\ next' = 0
  /\ metrics' = ZeroMetrics
  /\ trace' = << >>
  /\ sources' = Append(sources, InterfacesOf(trace))
  /\ UNCHANGED << useIfmibData, kernel, printed, exitStatus, sysctlError,
                  reports, waits, earlier >>

\* The direction and the after value of every warning in the output p.
WarnedBy(p) ==
  IF p = << >> THEN {}
  ELSE { [direction |-> p[1].warnings[i].direction,
          after     |-> p[1].warnings[i].after] : i \in DOMAIN p[1].warnings }

\* Line 117: sleep(1); the kernel's counters move on meanwhile.
Sleep ==
  /\ pc = "sleep"
  /\ passes < MaxPasses
  /\ \E k \in Kernels : kernel' = k
  /\ printed' = << >>
  /\ returned' = Newest(returned)
  /\ sources' = Newest(sources)
  /\ earlier' = WarnedBy(printed)
  /\ waits' = waits + 1
  /\ pc' = "size"
  /\ UNCHANGED << running, useIfmibData, length, buffer, next, metrics,
                  lastMetrics, currentMetrics, exitStatus, sysctlError, trace,
                  passes, reports >>

\* Deltas with the operands of every subtraction exchanged.
DeltasExchanged(current, last) ==
  [totalInputPackets  |-> Sub64(last.totalInputPackets, current.totalInputPackets),
   totalOutputPackets |-> Sub64(last.totalOutputPackets, current.totalOutputPackets),
   totalInputBytes    |-> Sub64(last.totalInputBytes, current.totalInputBytes),
   totalOutputBytes   |-> Sub64(last.totalOutputBytes, current.totalOutputBytes)]

\* Deltas taken in the width the embedded counters are cut to.
DeltasNarrow(current, last) ==
  [f \in NetworkMetricsFields |->
     ((current[f] - last[f]) + Modulus) % TruncModulus]

\* Lines 121-122 and 128-129: the four deltas.
Deltas(current, last) ==
  [totalInputPackets  |-> Sub64(current.totalInputPackets, last.totalInputPackets),
   totalOutputPackets |-> Sub64(current.totalOutputPackets, last.totalOutputPackets),
   totalInputBytes    |-> Sub64(current.totalInputBytes, last.totalInputBytes),
   totalOutputBytes   |-> Sub64(current.totalOutputBytes, last.totalOutputBytes)]

\* One "!! ... OVERFLOW !!" block: lines 135-136 and 140-141.
Overflow(direction, before, after) ==
  [direction |-> direction, before |-> before, after |-> after,
   difference |-> Sub64(before, after)]

\* Warnings whose output test reads the input counters.
WarningsInputTwice(current, last) ==
  (IF current.totalInputBytes < last.totalInputBytes
   THEN << Overflow("INPUT", last.totalInputBytes, current.totalInputBytes) >>
   ELSE << >>)
  \o
  (IF current.totalInputBytes < last.totalInputBytes
   THEN << Overflow("OUTPUT", last.totalOutputBytes, current.totalOutputBytes) >>
   ELSE << >>)

\* Warnings whose tests are <= instead of <.
WarningsOnEqual(current, last) ==
  (IF current.totalInputBytes <= last.totalInputBytes
   THEN << Overflow("INPUT", last.totalInputBytes, current.totalInputBytes) >>
   ELSE << >>)
  \o
  (IF current.totalOutputBytes <= last.totalOutputBytes
   THEN << Overflow("OUTPUT", last.totalOutputBytes, current.totalOutputBytes) >>
   ELSE << >>)

\* Warnings whose tests read the wrapped difference instead of comparing.
WarningsOnChange(current, last) ==
  (IF Sub64(last.totalInputBytes, current.totalInputBytes) > 0
   THEN << Overflow("INPUT", last.totalInputBytes, current.totalInputBytes) >>
   ELSE << >>)
  \o
  (IF Sub64(last.totalOutputBytes, current.totalOutputBytes) > 0
   THEN << Overflow("OUTPUT", last.totalOutputBytes, current.totalOutputBytes) >>
   ELSE << >>)

\* Warnings whose tests read the packet counters.
WarningsOnPackets(current, last) ==
  (IF current.totalInputPackets < last.totalInputPackets
   THEN << Overflow("INPUT", last.totalInputBytes, current.totalInputBytes) >>
   ELSE << >>)
  \o
  (IF current.totalOutputPackets < last.totalOutputPackets
   THEN << Overflow("OUTPUT", last.totalOutputBytes, current.totalOutputBytes) >>
   ELSE << >>)

\* Lines 134-142: the warnings of one iteration, in the order printed.
Warnings(current, last) ==
  (IF current.totalInputBytes < last.totalInputBytes
   THEN << Overflow("INPUT", last.totalInputBytes, current.totalInputBytes) >>
   ELSE << >>)
  \o
  (IF current.totalOutputBytes < last.totalOutputBytes
   THEN << Overflow("OUTPUT", last.totalOutputBytes, current.totalOutputBytes) >>
   ELSE << >>)

\* Lines 120-144: the report of one iteration.
Report ==
  /\ pc = "report"
  /\ printed' = << [totals   |-> currentMetrics,
                    deltas   |-> Deltas(currentMetrics, lastMetrics),
                    warnings |-> Warnings(currentMetrics, lastMetrics)] >>
  /\ reports' = reports + 1
  /\ pc' = "assign"
  /\ UNCHANGED << running, useIfmibData, kernel, length, buffer, next, metrics,
                  lastMetrics, currentMetrics, exitStatus, sysctlError, trace,
                  returned, passes, waits, earlier, sources >>

\* An iteration that ends without line 146.
AssignNothing ==
  /\ pc = "assign"
  /\ pc' = "sleep"
  /\ UNCHANGED << running, useIfmibData, kernel, length, buffer, next, metrics,
                  lastMetrics, currentMetrics, printed, exitStatus, sysctlError,
                  trace, returned, passes, reports, waits,
                  earlier, sources >>

\* An iteration that keeps the old sample when it has printed a warning.
AssignUnlessWarned ==
  /\ pc = "assign"
  /\ lastMetrics' =
       (IF printed[1].warnings = << >> THEN currentMetrics ELSE lastMetrics)
  /\ pc' = "sleep"
  /\ UNCHANGED << running, useIfmibData, kernel, length, buffer, next, metrics,
                  currentMetrics, printed, exitStatus, sysctlError, trace,
                  returned, passes, reports, waits, earlier, sources >>

\* An iteration that leaves the loop for the return 0 of line 149.
AssignAndLeave ==
  /\ pc = "assign"
  /\ lastMetrics' = currentMetrics
  /\ pc' = "exit"
  /\ exitStatus' = 0
  /\ UNCHANGED << running, useIfmibData, kernel, length, buffer, next, metrics,
                  currentMetrics, printed, sysctlError, trace,
                  returned, passes, reports, waits, earlier, sources >>

\* Line 146.
Assign ==
  /\ pc = "assign"
  /\ lastMetrics' = currentMetrics
  /\ pc' = "sleep"
  /\ UNCHANGED << running, useIfmibData, kernel, length, buffer, next, metrics,
                  currentMetrics, printed, exitStatus, sysctlError, trace,
                  returned, passes, reports, waits,
                  earlier, sources >>

\* Lines 113-114: main enters its first call of GetNetworkMetrics.  The flag
\* is a parameter of GetNetworkMetrics; both of its values are followed.
Init ==
  /\ pc = "size"
  /\ running = FALSE
  /\ useIfmibData \in BOOLEAN
  /\ kernel \in Kernels
  /\ length = 0
  /\ buffer = << >>
  /\ next = 0
  /\ metrics = ZeroMetrics
  /\ lastMetrics = ZeroMetrics
  /\ currentMetrics = ZeroMetrics
  /\ printed = << >>
  /\ exitStatus = -1
  /\ sysctlError = "none"
  /\ trace = << >>
  /\ returned = << >>
  /\ passes = 0
  /\ reports = 0
  /\ waits = 0
  /\ earlier = {}
  /\ sources = << >>

Next ==
  \/ SizeQuery
  \/ ContentQuery
  \/ ParseRecord
  \/ Return
  \/ Sleep
  \/ Report
  \/ Assign

Spec == Init /\ [][Next]_vars

\* The process is scheduled again and again, and sleep(1) and sysctl return:
\* a step that can be taken is taken.
LiveSpec == Init /\ [][Next]_vars /\ WF_vars(Next)

\* ===================================================================== claims
\* The report of the current iteration, once printed, and its warnings of
\* one direction.
Reported == pc = "assign"
TheReport == printed[1]
WarningsFor(direction) ==
  { i \in DOMAIN TheReport.warnings : TheReport.warnings[i].direction = direction }

WarningIsExact(direction, before, after) ==
  /\ (WarningsFor(direction) # {}) <=> (after < before)
  /\ Cardinality(WarningsFor(direction)) <= 1
  /\ \A i \in WarningsFor(direction) :
       /\ TheReport.warnings[i].before = before
       /\ TheReport.warnings[i].after = after
       /\ TheReport.warnings[i].difference = before - after

\* C1: in every iteration the input warning is printed exactly when
\* currentMetrics.totalInputBytes < lastMetrics.totalInputBytes as integers,
\* the output warning exactly when currentMetrics.totalOutputBytes <
\* lastMetrics.totalOutputBytes, each decided by its own counter alone, and a
\* warning names before = the previous value, after = the current value and
\* difference = previous - current.
C1_WarningIffDecrease ==
  Reported =>
    /\ Len(printed) = 1
    /\ WarningIsExact("INPUT", lastMetrics.totalInputBytes,
                      currentMetrics.totalInputBytes)
    /\ WarningIsExact("OUTPUT", lastMetrics.totalOutputBytes,
                      currentMetrics.totalOutputBytes)
    /\ Len(TheReport.warnings) =
         Cardinality(WarningsFor("INPUT")) + Cardinality(WarningsFor("OUTPUT"))

\* C1 witness: an iteration that printed the input warning and not the output
\* warning, the output counter having grown.
C1_Witness ==
  /\ Reported
  /\ WarningsFor("INPUT") # {}
  /\ WarningsFor("OUTPUT") = {}
  /\ currentMetrics.totalOutputBytes > lastMetrics.totalOutputBytes

IsByteField(f) == f \in {"totalInputBytes", "totalOutputBytes"}
DirectionOf(f) == IF f = "totalInputBytes" THEN "INPUT" ELSE "OUTPUT"

\* C2: for each of the four counters the printed delta is the value in
\* 0 .. 2^w - 1 congruent to current - previous modulo 2^w; previous = 10,
\* current = 15 prints 5; previous = 2^w - 5, current = 3 prints 8, and for a
\* byte counter the warning is printed with before = 2^w - 5, after = 3.
C2_DeltaIsModular ==
  Reported =>
    \A f \in NetworkMetricsFields :
      LET prev == lastMetrics[f]
          cur == currentMetrics[f]
          delta == TheReport.deltas[f]
      IN /\ delta \in Word
         /\ \E q \in {0, 1} : delta = (cur - prev) + (q * Modulus)
         /\ (prev = 10 /\ cur = 15) => delta = 5
         /\ (prev = Modulus - 5 /\ cur = 3) =>
              /\ delta = 8
              /\ IsByteField(f) =>
                   \E i \in WarningsFor(DirectionOf(f)) :
                     /\ TheReport.warnings[i].before = Modulus - 5
                     /\ TheReport.warnings[i].after = 3

\* C2 witness: a report over previous = 2^w - 5 and current = 3 in the input
\* byte counter, with delta 8.
C2_Witness ==
  /\ Reported
  /\ lastMetrics.totalInputBytes = Modulus - 5
  /\ currentMetrics.totalInputBytes = 3
  /\ TheReport.deltas.totalInputBytes = 8

\* A record whose declared length is zero or runs past the end of the buffer.
Malformed(message, offset, end) ==
  \/ message.ifm_msglen = 0
  \/ offset + message.ifm_msglen > end

\* C3: a pass that reaches a record declaring length zero, or a length that
\* takes the cursor past the end of the buffer, ends in the fatal exit: the
\* walk is never found past such a record, still running or about to return.
C3_MalformedIsFatal ==
  pc = "loop" =>
    \A i \in DOMAIN trace :
      ~Malformed(trace[i].message, trace[i].offset, length)

\* C4: a failure of the size query or of the content query, in any pass,
\* ends the process with status 1 in that very call, with no report, no
\* returned snapshot and lastMetrics as it was; nothing happens after the
\* exit; and a report is printed only from the two snapshots the last two
\* calls returned, with no query having failed.
C4_PrimaryFailureIsFatal ==
  /\ [](sysctlError \in {"size", "content"} => (pc = "exit" /\ exitStatus = 1))
  /\ [][(sysctlError = "none" /\ sysctlError' \in {"size", "content"}) =>
          /\ pc \in {"size", "fetch"}
          /\ lastMetrics' = lastMetrics
          /\ printed' = printed
          /\ printed = << >>
          /\ reports' = reports
          /\ passes' = passes
          /\ returned' = returned]_vars
  /\ [][exitStatus # 1]_vars
  /\ [](printed # << >> =>
          /\ sysctlError = "none"
          /\ Len(returned) = 2
          /\ printed[1].totals = returned[2]
          /\ \A f \in NetworkMetricsFields :
               (printed[1].deltas[f] - (returned[2][f] - returned[1][f]))
                 % Modulus = 0)

\* C4 witness: the content query of the third call has failed, after one
\* report, and the process has exited.
C4_Witness ==
  /\ pc = "exit"
  /\ sysctlError = "content"
  /\ passes = 2
  /\ reports = 1

\* The counters the selected source gave for one visited interface record.
Selected(v) == IF useIfmibData THEN v.result[1] ELSE v.message.ifm_data

\* The plain sum of one counter over the interface records among t.
RECURSIVE SumOver(_, _)
SumOver(t, c) ==
  IF t = << >> THEN 0
  ELSE (IF Head(t).message.ifm_type = "RTM_IFINFO2" THEN Selected(Head(t))[c] ELSE 0)
       + SumOver(Tail(t), c)

SnapshotOf(t) ==
  [totalInputPackets  |-> SumOver(t, "ifi_ipackets") % Modulus,
   totalOutputPackets |-> SumOver(t, "ifi_opackets") % Modulus,
   totalInputBytes    |-> SumOver(t, "ifi_ibytes") % Modulus,
   totalOutputBytes   |-> SumOver(t, "ifi_obytes") % Modulus]

\* C5: with useIfmibData false no secondary query is made and the counters
\* added are the records' embedded ones; with useIfmibData true every
\* RTM_IFINFO2 record visited gets exactly one secondary query, for that
\* record's ifm_index, and the counters added are the query's result, the
\* kernel's full-width counters of that interface.  Other records get none.
C5_SourceSelection ==
  /\ \A i \in DOMAIN trace :
       LET v == trace[i] IN
         IF useIfmibData /\ v.message.ifm_type = "RTM_IFINFO2"
         THEN /\ v.queried = << v.message.ifm_index >>
              /\ v.result = << KernelTables[kernel][v.message.ifm_index] >>
         ELSE /\ v.queried = << >>
              /\ v.result = << >>
  /\ Len(trace) < TraceCap => metrics = SnapshotOf(trace)

\* C5 witness: a pass with useIfmibData true that has queried interface 2 and
\* then interface 1, whose results differ from the embedded counters.
C5_Witness ==
  /\ useIfmibData
  /\ pc = "loop"
  /\ Len(trace) = 2
  /\ trace[1].queried = << 2 >>
  /\ trace[2].queried = << 1 >>
  /\ trace[1].result # << trace[1].message.ifm_data >>
  /\ metrics # ZeroMetrics

\* The counters the selected source holds for the record at offset o.
SourceAt(o) ==
  IF useIfmibData THEN KernelTables[kernel][buffer[o + 1].ifm_index]
  ELSE buffer[o + 1].ifm_data

\* The plain sum of one counter over the interface records at the offsets S.
RECURSIVE SumAt(_, _)
SumAt(S, c) ==
  IF S = {} THEN 0
  ELSE LET o == CHOOSE x \in S : TRUE IN
         (IF buffer[o + 1].ifm_type = "RTM_IFINFO2" THEN SourceAt(o)[c] ELSE 0)
         + SumAt(S \ {o}, c)

SumOfBuffer ==
  LET S == Chain(buffer, 0) IN
    [totalInputPackets  |-> SumAt(S, "ifi_ipackets") % Modulus,
     totalOutputPackets |-> SumAt(S, "ifi_opackets") % Modulus,
     totalInputBytes    |-> SumAt(S, "ifi_ibytes") % Modulus,
     totalOutputBytes   |-> SumAt(S, "ifi_obytes") % Modulus]

\* C6: the snapshot a call returns has each field equal to the sum, modulo
\* 2^w, of the selected source's counter over the RTM_IFINFO2 records of
\* that call's buffer, each once, records of other types adding nothing and
\* nothing of an earlier call remaining.
C6_SnapshotIsSum ==
  [][(pc = "loop" /\ pc' \in {"report", "sleep"}) =>
       /\ (IF running THEN currentMetrics' ELSE lastMetrics') = SumOfBuffer
       /\ returned'[Len(returned')] = SumOfBuffer]_vars

\* C6 witness: a later call is about to return a non-zero sum over a buffer
\* of one interface record and one record of another type.
C6_Witness ==
  /\ pc = "loop"
  /\ next >= length
  /\ passes >= 1
  /\ lastMetrics # ZeroMetrics
  /\ Len(buffer) = 2
  /\ buffer[1].ifm_type = "RTM_NEWADDR"
  /\ buffer[2].ifm_type = "RTM_IFINFO2"
  /\ Len(trace) = 2
  /\ metrics # ZeroMetrics
  /\ metrics # lastMetrics

\* A buffer that is a concatenation of records of positive declared lengths.
RECURSIVE WellFormedFrom(_, _)
WellFormedFrom(buf, o) ==
  \/ o = Len(buf)
  \/ /\ o < Len(buf)
     /\ buf[o + 1].ifm_msglen > 0
     /\ o + buf[o + 1].ifm_msglen <= Len(buf)
     /\ WellFormedFrom(buf, o + buf[o + 1].ifm_msglen)

RECURSIVE LengthsBefore(_, _)
LengthsBefore(t, i) ==
  IF i = 1 THEN 0 ELSE LengthsBefore(t, i - 1) + t[i - 1].message.ifm_msglen

\* C7: over a buffer of length L made of N well-formed records the walk ends
\* with the cursor at L, having visited N records, the i-th at the offset
\* that is the sum of the declared lengths before it, each taken as an
\* interface record exactly when its type tag is RTM_IFINFO2.
C7_WalkVisitsEveryRecord ==
  (pc = "loop" /\ next >= length /\ WellFormedFrom(buffer, 0)) =>
    /\ next = length
    /\ length = Len(buffer)
    /\ Len(trace) = Cardinality(Chain(buffer, 0))
    /\ \A i \in DOMAIN trace :
         /\ trace[i].offset = LengthsBefore(trace, i)
         /\ trace[i].message = buffer[trace[i].offset + 1]
         /\ (trace[i].kind = "GenericInfo")
              <=> (trace[i].message.ifm_type = "RTM_IFINFO2")
         /\ trace[i].kind \in {"GenericInfo", "Other"}

\* C7 witness: the walk has ended over a well-formed buffer of two records,
\* one of each type.
C7_Witness ==
  /\ pc = "loop"
  /\ next >= length
  /\ WellFormedFrom(buffer, 0)
  /\ Len(trace) = 2
  /\ trace[1].kind = "GenericInfo"
  /\ trace[2].kind = "Other"
  /\ trace[2].offset = 1

\* C8: before the first call returns nothing is reported; the first return
\* starts the loop for good; at every report lastMetrics is the snapshot the
\* call before the latest returned and currentMetrics the latest one; and
\* lastMetrics changes inside the loop only at the end of an iteration, after
\* its report, to currentMetrics.
C8_PreviousIsPrecedingSnapshot ==
  /\ [](~running => (reports = 0 /\ printed = << >> /\ passes = 0))
  /\ [][running => running']_vars
  /\ [][(~running /\ running') =>
          /\ pc = "loop"
          /\ passes' = 1
          /\ returned' = << lastMetrics' >>]_vars
  /\ [](pc \in {"report", "assign"} =>
          /\ Len(returned) = 2
          /\ lastMetrics = returned[1]
          /\ currentMetrics = returned[2])
  /\ [][reports' # reports =>
          /\ pc = "report"
          /\ reports' = reports + 1
          /\ lastMetrics' = lastMetrics]_vars
  /\ [][(running /\ lastMetrics' # lastMetrics) =>
          /\ pc = "assign"
          /\ printed # << >>
          /\ printed' = printed
          /\ reports' = reports
          /\ lastMetrics' = currentMetrics]_vars

\* C8 witness: the second report has been printed, over two different
\* snapshots, and lastMetrics is still the older of the two.
C8_Witness ==
  /\ pc = "assign"
  /\ passes = 3
  /\ reports = 2
  /\ returned[1] # returned[2]
  /\ lastMetrics = returned[1]

\* C9: with useIfmibData true a failure of the secondary query ends the
\* process with status 1 in that very turn of the loop: nothing is added for
\* the record, nothing is returned or printed, lastMetrics stays as it was,
\* and nothing happens after the exit.
C9_SecondaryFailureIsFatal ==
  /\ [](sysctlError = "ifmib" => (useIfmibData /\ pc = "exit" /\ exitStatus = 1))
  /\ [][(sysctlError = "none" /\ sysctlError' = "ifmib") =>
          /\ pc = "loop"
          /\ buffer[next + 1].ifm_type = "RTM_IFINFO2"
          /\ metrics' = metrics
          /\ lastMetrics' = lastMetrics
          /\ currentMetrics' = currentMetrics
          /\ printed' = printed
          /\ reports' = reports
          /\ passes' = passes
          /\ returned' = returned]_vars
  /\ [][exitStatus # 1]_vars

\* C9 witness: the secondary query failed on the second record of a later
\* pass, the first record's counters being summed already.
C9_Witness ==
  /\ pc = "exit"
  /\ sysctlError = "ifmib"
  /\ passes >= 1
  /\ Len(trace) = 1
  /\ next = 1
  /\ metrics # ZeroMetrics

OrdinaryGrowth ==
  \A f \in NetworkMetricsFields :
    /\ currentMetrics[f] >= lastMetrics[f]
    /\ currentMetrics[f] - lastMetrics[f] < Modulus \div 2

\* C10: when every field of currentMetrics is at least the field of
\* lastMetrics, by less than 2^(w-1), the iteration prints no warning and
\* each delta is the plain difference current - previous.
C10_NoAnomalyOnGrowth ==
  (Reported /\ OrdinaryGrowth) =>
    /\ TheReport.warnings = << >>
    /\ \A f \in NetworkMetricsFields :
         TheReport.deltas[f] = currentMetrics[f] - lastMetrics[f]

\* C10 witness: a report over two samples of which every field has grown.
C10_Witness ==
  /\ Reported
  /\ OrdinaryGrowth
  /\ \A f \in NetworkMetricsFields : currentMetrics[f] > lastMetrics[f]

ByteFieldOf(direction) ==
  IF direction = "INPUT" THEN "totalInputBytes" ELSE "totalOutputBytes"

\* C11: an iteration that prints a warning goes on like any other: the
\* process does not exit, line 146 makes the decreased sample the previous
\* one, and the next report compares against it, so that it repeats the
\* warning only if the counter has dropped again.
C11_WarningIsNotAnError ==
  /\ [][(pc = "report" /\ Warnings(currentMetrics, lastMetrics) # << >>) =>
          /\ pc' = "assign"
          /\ exitStatus' = -1
          /\ printed'[1].warnings # << >>]_vars
  /\ [][(pc = "assign" /\ printed[1].warnings # << >>) =>
          /\ pc' = "sleep"
          /\ exitStatus' = -1
          /\ lastMetrics' = currentMetrics]_vars
  /\ [](Reported =>
          \A w \in earlier :
            LET f == ByteFieldOf(w.direction) IN
              /\ lastMetrics[f] = w.after
              /\ (WarningsFor(w.direction) # {}) <=> (currentMetrics[f] < w.after))

\* C11 witness: the iteration before printed the input warning, the input
\* counter has not dropped since, and this report has no input warning.
C11_Witness ==
  /\ Reported
  /\ \E w \in earlier : w.direction = "INPUT"
  /\ currentMetrics.totalInputBytes >= lastMetrics.totalInputBytes
  /\ WarningsFor("INPUT") = {}

\* The operands of the truncation case for counter f: the previous value p
\* lies below the truncation boundary and the current one below p, so that
\* current = (p + g) mod TruncModulus for the growth g the definition below
\* gives, with 0 < g < TruncModulus.
TruncationCase(f) ==
  /\ lastMetrics[f] < TruncModulus
  /\ currentMetrics[f] < lastMetrics[f]

Growth(f) == (currentMetrics[f] - lastMetrics[f]) + TruncModulus

\* C12 as the specification states it: in the truncation case the printed
\* delta is the growth g.
C12_TruncatedDeltaIsGrowth ==
  Reported =>
    \A f \in NetworkMetricsFields :
      TruncationCase(f) => TheReport.deltas[f] = Growth(f)

\* C12, amended: in the truncation case the printed delta is
\* g + 2^w - TruncModulus, a value in the upper half of the word whose
\* remainder modulo TruncModulus is g; it is never g itself.
C12_TruncatedDeltaIsOffset ==
  Reported =>
    \A f \in NetworkMetricsFields :
      TruncationCase(f) =>
        /\ TheReport.deltas[f] = Growth(f) + (Modulus - TruncModulus)
        /\ TheReport.deltas[f] % TruncModulus = Growth(f)
        /\ TheReport.deltas[f] >= Modulus - TruncModulus
        /\ TheReport.deltas[f] # Growth(f)

\* C12 witness: with the embedded counters, both passes have summed the one
\* record of the same interface, whose kernel counter now lies past the
\* truncation boundary, and the output byte total has dropped.
C12_Witness ==
  /\ Reported
  /\ ~useIfmibData
  /\ TruncationCase("totalOutputBytes")
  /\ \E i \in IfIndexes :
       /\ KernelTables[kernel][i].ifi_obytes >= TruncModulus
       /\ \A n \in 1 .. 2 : { x.index : x \in sources[n] } = {i}
       /\ \A n \in 1 .. 2 : Cardinality(sources[n]) = 1
       /\ \E x \in sources[2] : x.obytes = currentMetrics.totalOutputBytes

\* The counter sets the loop has fed to the accumulator in this pass, in the
\* order of the buffer.
CounterSets ==
  LET t == SelectSeq(trace, LAMBDA v : v.kind = "GenericInfo")
  IN [i \in DOMAIN t |-> Selected(t[i])]

Permutations(n) ==
  { p \in [1 .. n -> 1 .. n] : \A i, j \in 1 .. n : p[i] = p[j] => i = j }

\* The accumulator after the first n counter sets of ds, taken in the order p.
RECURSIVE Aggregate(_, _, _)
Aggregate(ds, p, n) ==
  IF n = 0 THEN ZeroMetrics
  ELSE Accumulate(Aggregate(ds, p, n - 1), ds[p[n]])

\* C13: the accumulator of a pass equals what the four += give when the
\* counter sets of the pass are fed to them in any other order, also when a
\* sum passes 2^w.
C13_AggregationCommutes ==
  (pc = "loop" /\ Len(trace) < TraceCap) =>
    \A p \in Permutations(Len(CounterSets)) :
      Aggregate(CounterSets, p, Len(CounterSets)) = metrics

\* C13 witness: the loop has ended over two interface records with different
\* counters whose input byte sum passes 2^w.
C13_Witness ==
  /\ pc = "loop"
  /\ next >= length
  /\ Len(trace) < TraceCap
  /\ Len(CounterSets) = 2
  /\ CounterSets[1] # CounterSets[2]
  /\ CounterSets[1].ifi_ibytes + CounterSets[2].ifi_ibytes >= Modulus
  /\ metrics.totalInputBytes =
       (CounterSets[1].ifi_ibytes + CounterSets[2].ifi_ibytes) - Modulus

\* The buffer of the pass under way is not a concatenation of records of
\* positive declared lengths.
MalformedFetched == pc = "loop" /\ ~WellFormedFrom(buffer, 0)

\* C14: the exit status is never 0; the process has ended exactly when it is
\* at exit(1), which it enters by the step in which a sysctl call fails;
\* line 146 leads back to the head of the loop, which is entered only from
\* there or from the first pass, and only after the iteration's report; and,
\* failing queries and malformed buffers apart, every iteration completes
\* and the next is begun, for as many passes as are followed.
C14_NoTerminalState ==
  /\ [](exitStatus \in {-1, 1})
  /\ []((pc = "exit") <=> (exitStatus = 1))
  /\ [][(exitStatus' # -1) =>
          /\ exitStatus' = 1
          /\ pc \in {"size", "fetch", "loop"}
          /\ sysctlError = "none"
          /\ sysctlError' # "none"]_vars
  /\ [][(pc = "assign") => (pc' = "sleep" /\ exitStatus' = -1)]_vars
  /\ [][(pc' = "sleep" /\ pc # "sleep") =>
          \/ pc = "assign"
          \/ pc = "loop" /\ ~running]_vars
  /\ [][(pc' = "assign") => (pc = "report" /\ reports' = reports + 1)]_vars
  /\ []<>(\/ exitStatus = 1
          \/ MalformedFetched
          \/ pc = "sleep" /\ passes = MaxPasses /\ reports = MaxPasses - 1)

\* C14 witness: three passes have returned, two iterations have completed
\* and no query has failed.
C14_Witness ==
  /\ pc = "sleep"
  /\ passes = 3
  /\ useIfmibData
  /\ reports = 2
  /\ exitStatus = -1
  /\ sysctlError = "none"

\* The interfaces summed in both of the two passes a report compares whose
\* own byte counter of the direction is lower in the later pass.
Decreased(direction) ==
  { x \in sources[1] :
      \E y \in sources[2] :
        /\ y.index = x.index
        /\ IF direction = "INPUT" THEN y.ibytes < x.ibytes
           ELSE y.obytes < x.obytes }

\* C15 as the specification states it: a warning of a direction is printed
\* only when some interface's own byte counter of that direction, as the
\* selected source gave it, is lower in this pass than in the one before.
C15_WarningMeansInterfaceDecrease ==
  Reported =>
    \A direction \in {"INPUT", "OUTPUT"} :
      WarningsFor(direction) # {} => Decreased(direction) # {}

\* The byte counter of a direction in an entry of sources.
BytesOf(x, direction) == IF direction = "INPUT" THEN x.ibytes ELSE x.obytes

\* The interfaces summed in the earlier pass that have left the list since.
Departed ==
  { x \in sources[1] : \A y \in sources[2] : y.index # x.index }

\* The plain sum of a direction's byte counters over the records of a pass.
RECURSIVE PlainSum(_, _)
PlainSum(S, direction) ==
  IF S = {} THEN 0
  ELSE LET x == CHOOSE y \in S : TRUE IN
         BytesOf(x, direction) + PlainSum(S \ {x}, direction)

\* The accumulator has passed 2^w more often in the later pass.
WrappedMore(direction) ==
  PlainSum(sources[2], direction) \div Modulus
    > PlainSum(sources[1], direction) \div Modulus

\* C15, amended: the two totals a report compares are the sums modulo 2^w of
\* the per-interface counters of the two passes, and a warning of a direction
\* is printed only when the later total is the lower; then some interface's
\* own counter is lower, or an interface summed before has left the list, or
\* the accumulator has wrapped - the last two without any interface's own
\* counter being lower.
C15_WarningMeansTotalDecrease ==
  Reported =>
    \A direction \in {"INPUT", "OUTPUT"} :
      LET f == ByteFieldOf(direction) IN
        /\ lastMetrics[f] = PlainSum(sources[1], direction) % Modulus
        /\ currentMetrics[f] = PlainSum(sources[2], direction) % Modulus
        /\ WarningsFor(direction) # {} =>
             /\ currentMetrics[f] < lastMetrics[f]
             /\ \/ Decreased(direction) # {}
                \/ Departed # {}
                \/ WrappedMore(direction)

\* C15 witness: the input warning is printed although no interface's own
\* counter is lower and every interface summed before is summed again: the
\* accumulator has wrapped.
C15_Witness ==
  /\ Reported
  /\ WarningsFor("INPUT") # {}
  /\ Decreased("INPUT") = {}
  /\ Departed = {}
  /\ sources[1] # {}
  /\ WrappedMore("INPUT")

\* C16: the first pass is made with no sleep(1) before it and its return
\* prints nothing; after it every sleep(1) is followed by one pass and every
\* pass that returns by one report, in this order, so that with k + 1 passes
\* returned and the iteration complete k reports have been printed, and none
\* is printed before two passes have returned.
C16_WaitPassReport ==
  /\ [](passes = 0 => (waits = 0 /\ reports = 0 /\ printed = << >>))
  /\ [](pc \in {"size", "fetch", "loop", "exit"} =>
          /\ waits = passes
          /\ reports = (IF passes = 0 THEN 0 ELSE passes - 1))
  /\ [](pc = "report" => (waits = passes - 1 /\ reports = passes - 2))
  /\ [](pc \in {"assign", "sleep"} =>
          (waits = passes - 1 /\ reports = passes - 1))
  /\ [](reports > 0 => passes >= 2)
  /\ [][(passes = 0 /\ passes' = 1) =>
          (pc' = "sleep" /\ reports' = 0 /\ printed' = << >>)]_vars
  /\ [][(waits' # waits) =>
          (pc = "sleep" /\ pc' = "size" /\ waits' = waits + 1)]_vars
  /\ [][(passes' # passes /\ passes >= 1) =>
          (passes' = passes + 1 /\ waits = passes /\ pc' = "report")]_vars
  /\ [][(reports' # reports) =>
          (reports' = reports + 1 /\ pc = "report" /\ passes = reports + 2)]_vars

\* C16 witness: three passes have returned after two waits, and the second
\* report has just been printed.
C16_Witness ==
  /\ Reported
  /\ passes = 3
  /\ waits = 2
  /\ reports = 2

PacketFields == {"totalInputPackets", "totalOutputPackets"}

\* C17: a report whose two byte totals are not below the previous ones
\* prints no warning, whatever the packet totals have done; a packet total
\* that is below the previous one shows only in its delta, which is 2^w less
\* the decrease.
C17_PacketsNeverWarn ==
  Reported =>
    /\ (/\ currentMetrics.totalInputBytes >= lastMetrics.totalInputBytes
        /\ currentMetrics.totalOutputBytes >= lastMetrics.totalOutputBytes) =>
         TheReport.warnings = << >>
    /\ \A f \in PacketFields :
         currentMetrics[f] < lastMetrics[f] =>
           /\ TheReport.deltas[f] = Modulus - (lastMetrics[f] - currentMetrics[f])
           /\ TheReport.deltas[f] > currentMetrics[f]
    /\ \A i \in DOMAIN TheReport.warnings :
         LET w == TheReport.warnings[i] IN
           /\ w.before = lastMetrics[ByteFieldOf(w.direction)]
           /\ w.after = currentMetrics[ByteFieldOf(w.direction)]

\* C17 witness: both packet totals are below the previous ones, both byte
\* totals are above them, and the report has wrapped packet deltas and no
\* warning.
C17_Witness ==
  /\ Reported
  /\ \A f \in PacketFields :
       /\ currentMetrics[f] < lastMetrics[f]
       /\ TheReport.deltas[f] = Modulus - (lastMetrics[f] - currentMetrics[f])
  /\ currentMetrics.totalInputBytes > lastMetrics.totalInputBytes
  /\ currentMetrics.totalOutputBytes > lastMetrics.totalOutputBytes
  /\ TheReport.warnings = << >>

====
